---- MODULE Spec2Model ----
(***************************************************************************)
(* A model of the rust-btc node: transactions and their hashes, blocks and *)
(* proof of work, the append-only Blockchain, the UTXO set and the         *)
(* concurrent Mempool.                                                     *)
(*                                                                         *)
(* Strings and byte vectors are modelled as tuples: <<>> is the empty      *)
(* string, <<"s", n>> a literal, <<"0_", t>> the coinbase sentinel         *)
(* "0_<timestamp>", and a SHA-256 digest is the free constructor           *)
(* <<tag, preimage>>, so that two digests are equal exactly when their     *)
(* preimages are (collision resistance) and no digest is its own preimage. *)
(***************************************************************************)
EXTENDS Integers, Sequences, FiniteSets, TLC

VARIABLES
    blocks,         \* Blockchain.blocks
    current_hash,   \* Blockchain.current_hash
    utxos,          \* the node's UTXOSet.utxos: txid -> list of <<vout, TxOutput>>
    now,            \* the system clock, in seconds
    lastCall,       \* the last Blockchain / UTXOSet call: [op, block, result]
    transactions,   \* Mempool.transactions: tx.hash() -> TransactionEntry
    max_size,       \* Mempool.max_size
    pool_utxo,      \* Mempool.utxo_set (an Arc<UTXOSet>, never written)
    pc,             \* per thread: position inside its Mempool call
    call,           \* per thread: the call it is in / has returned from
    queue,          \* add_transactions: items of the batch not yet started
    batch,          \* add_transactions: [state, result] of the batch call
    tree,           \* a MerkleTree: [root, leaves], NoTree before MerkleTree::new
    proofCall,      \* the last get_proof / verify_proof call on the tree
    template,       \* the last get_transactions_for_new_block call: [op, max_n, result]
    started,        \* per node: its P2PNetwork::start task has bound the listener
    backlog,        \* per node: connections made to its listener, not yet accepted
    peers,          \* per node: P2PNetwork.peers, address -> the Peer's channel
    storage,        \* per node: the blocks table of its Storage, height -> block
    sent,           \* the last broadcast or maintenance pass: [op, from, msg, peers]
    walletCall      \* the last wallet-side call: [op, args, result]

chainVars == <<blocks, current_hash, utxos, lastCall>>
poolVars == <<transactions, max_size, pool_utxo, pc, call, queue, batch>>
merkleVars == <<tree, proofCall>>
netVars == <<started, backlog, peers, storage, sent>>
vars == <<blocks, current_hash, utxos, now, lastCall,
          transactions, max_size, pool_utxo, pc, call, queue, batch,
          tree, proofCall, template,
          started, backlog, peers, storage, sent, walletCall>>

----------------------------------------------------------------------------
(* Bounds of the model *)

MaxChainLen == 2    \* add_block is explored while the chain is shorter
MaxBlockTxs == 2    \* transactions per candidate block
MaxTime == 2        \* the clock runs from 1 to MaxTime
MineNonce == 1      \* the first nonce whose block hash meets the target
NumThreads == 2     \* threads calling into the mempool
MaxPoolSize == 2    \* the max_size the mempool is built with (with_capacity)
MaxUpdateTxs == 3   \* transactions per UTXOSet::update call
MaxBatch == 2       \* transactions per add_transactions call
MaxLeaves == 5      \* data items a MerkleTree is built over
NumNodes == 3       \* P2PNetwork nodes
MaxConns == 2       \* connect_to_peer calls that reach a listener

(* Program constants *)

SUBSIDY == 50
MAX_BLOCK_SIZE == 1000000
MAX_CHAIN_LENGTH == 1000000
MINING_DIFFICULTY == 4
MAX_MEMPOOL_SIZE == 5000
MAX_TRANSACTION_SIZE == 100000
MIN_FEE_RATE_INV == 100000                  \* MIN_FEE_RATE is 1 / 100000

----------------------------------------------------------------------------
(* Strings, digests, keys *)

EmptyStr == <<>>
Str(n) == <<"s", n>>
Sentinel(t) == <<"0_", t>>
GenesisPrev == Str(0)                       \* the literal "0"
ZeroRoot == <<"zero">>                      \* 64 '0' characters

StartsWith0_(s) == Len(s) > 0 /\ s[1] = "0_"

\* length in bytes of a modelled string
StrLen(s) ==
    IF s = EmptyStr THEN 0
    ELSE IF s[1] = "s" THEN 1
    ELSE IF s[1] = "0_" THEN 12
    ELSE IF s[1] = "sig" THEN 64
    ELSE IF s[1] = "pk" THEN 33
    ELSE IF s[1] = "addr" THEN 25
    ELSE 64

Wallets == {"A", "B"}
PublicKey(w) == <<"pk", w>>
\* bs58-decoded address of a wallet: what TxOutput.pubkey_hash holds
Address(w) == <<"addr", w>>
WalletSign(w, msg) == <<"sig", w, msg>>

RECURSIVE SumSeq(_)
SumSeq(s) == IF s = <<>> THEN 0 ELSE Head(s) + SumSeq(Tail(s))

----------------------------------------------------------------------------
(* Transactions: src/src/transaction.rs *)

TxInput(txid, vout, value) ==
    [txid |-> txid, vout |-> vout, signature |-> EmptyStr, pubkey |-> EmptyStr,
     value |-> value]

TxOutput(value, w) == [value |-> value, pubkey_hash |-> Address(w)]

\* Transaction::hash: SHA-256 of the bincode serialization of the whole struct
\* (the id field included) with every input's signature and pubkey cleared
TxHash(tx) ==
    <<"txh", [tx EXCEPT !.vin = [i \in DOMAIN tx.vin |->
                  [tx.vin[i] EXCEPT !.signature = EmptyStr, !.pubkey = EmptyStr]]]>>

is_coinbase(tx) == Len(tx.vin) = 1 /\ StartsWith0_(tx.vin[1].txid)

\* Transaction::sign
Sign(tx, w) ==
    IF is_coinbase(tx) THEN tx
    ELSE [tx EXCEPT !.vin = [i \in DOMAIN tx.vin |->
              [tx.vin[i] EXCEPT !.pubkey = PublicKey(w),
                                !.signature = WalletSign(w, TxHash(tx))]]]

\* The tail of Transaction::new: id := hash() of the transaction with an empty
\* id, then sign
WithId(vin, vout) ==
    LET tx0 == [id |-> EmptyStr, vin |-> vin, vout |-> vout]
    IN [tx0 EXCEPT !.id = TxHash(tx0)]

\* Transaction::new_coinbase(to, _) called at clock second t
new_coinbase(to, t) ==
    WithId(<<TxInput(Sentinel(t), 0, SUBSIDY)>>, <<TxOutput(SUBSIDY, to)>>)

InputTotal(tx) == SumSeq([i \in DOMAIN tx.vin |-> tx.vin[i].value])
OutputTotal(tx) == SumSeq([i \in DOMAIN tx.vout |-> tx.vout[i].value])

verify_transaction_data(tx) ==
    /\ tx.vin # <<>> /\ tx.vout # <<>>
    /\ \A i \in DOMAIN tx.vout : tx.vout[i].value > 0
    /\ InputTotal(tx) > OutputTotal(tx)

\* bincode size of a transaction
TxSize(tx) ==
    8 + StrLen(tx.id)
    + 8 + SumSeq([i \in DOMAIN tx.vin |->
              8 + StrLen(tx.vin[i].txid) + 8 + 8 + StrLen(tx.vin[i].signature)
              + 8 + StrLen(tx.vin[i].pubkey) + 8])
    + 8 + SumSeq([i \in DOMAIN tx.vout |-> 8 + 8 + StrLen(tx.vout[i].pubkey_hash)])

----------------------------------------------------------------------------
(* The UTXO set: src/src/utxo.rs *)

EmptyUTXO == [k \in {} |-> <<>>]

\* outputs.retain(|(vout, _)| *vout != input.vout)
Retain(outs, v) == SelectSeq(outs, LAMBDA e : e[1] # v)

\* the removal of one spent input, with the key dropped when its list empties
RemoveInput(u, input) ==
    IF input.txid \in DOMAIN u
    THEN LET kept == Retain(u[input.txid], input.vout)
         IN IF kept = <<>>
            THEN [k \in DOMAIN u \ {input.txid} |-> u[k]]
            ELSE [u EXCEPT ![input.txid] = kept]
    ELSE u

RECURSIVE RemoveInputs(_, _)
RemoveInputs(u, vin) ==
    IF vin = <<>> THEN u ELSE RemoveInputs(RemoveInput(u, Head(vin)), Tail(vin))

Outputs(tx) == [i \in DOMAIN tx.vout |-> <<i - 1, tx.vout[i]>>]

Insert(u, k, v) == [x \in DOMAIN u \cup {k} |-> IF x = k THEN v ELSE u[x]]

\* one transaction of UTXOSet::update: the insert overwrites
UpdateTx(u, tx) ==
    LET spent == IF is_coinbase(tx) THEN u ELSE RemoveInputs(u, tx.vin)
    IN Insert(spent, tx.id, Outputs(tx))

RECURSIVE update(_, _)
update(u, txs) == IF txs = <<>> THEN u ELSE update(UpdateTx(u, Head(txs)), Tail(txs))

\* one transaction of UTXOSet::reindex: an id already present is skipped
ReindexTx(u, tx) ==
    LET spent == IF is_coinbase(tx) THEN u ELSE RemoveInputs(u, tx.vin)
    IN IF tx.id \in DOMAIN spent THEN spent ELSE Insert(spent, tx.id, Outputs(tx))

RECURSIVE ReindexTxs(_, _)
ReindexTxs(u, txs) ==
    IF txs = <<>> THEN u ELSE ReindexTxs(ReindexTx(u, Head(txs)), Tail(txs))

RECURSIVE ReindexBlocks(_, _)
ReindexBlocks(u, bs) ==
    IF bs = <<>> THEN u
    ELSE ReindexBlocks(ReindexTxs(u, Head(bs).transactions), Tail(bs))

reindex(chain) == ReindexBlocks(EmptyUTXO, chain)

exists_utxo(u, txid, vout) ==
    txid \in DOMAIN u /\ \E i \in DOMAIN u[txid] : u[txid][i][1] = vout

verify_input(u, input) ==
    /\ input.txid \in DOMAIN u
    /\ \E i \in DOMAIN u[input.txid] :
          /\ u[input.txid][i][1] = input.vout
          /\ \A j \in 1..(i - 1) : u[input.txid][j][1] # input.vout
          /\ u[input.txid][i][2].value = input.value

RECURSIVE BalanceOver(_, _, _)
BalanceOver(u, keys, addr) ==
    IF keys = {} THEN 0
    ELSE LET k == CHOOSE x \in keys : TRUE
         IN SumSeq([i \in DOMAIN u[k] |->
                       IF u[k][i][2].pubkey_hash = addr THEN u[k][i][2].value ELSE 0])
            + BalanceOver(u, keys \ {k}, addr)

\* UTXOSet::get_balance of the address of wallet w
get_balance(u, w) == BalanceOver(u, DOMAIN u, Address(w))

\* UTXOSet::find_transaction_output is called by Transaction::verify but is not
\* defined in utxo.rs; modelled as the lookup of section 4.5 (find), failing
\* when the output is not in the set
find_transaction_output(u, txid, vout) ==
    IF exists_utxo(u, txid, vout)
    THEN [ok |-> TRUE,
          value |-> u[txid][CHOOSE i \in DOMAIN u[txid] : u[txid][i][1] = vout][2].value]
    ELSE [ok |-> FALSE, value |-> 0]

\* Transaction::verify: "true", or the error it returns
verify(tx, u) ==
    IF is_coinbase(tx) THEN "true"
    ELSE IF \E i \in DOMAIN tx.vin :
                ~find_transaction_output(u, tx.vin[i].txid, tx.vin[i].vout).ok
    THEN "UTXONotFound"
    ELSE IF SumSeq([i \in DOMAIN tx.vin |->
                find_transaction_output(u, tx.vin[i].txid, tx.vin[i].vout).value])
            <= OutputTotal(tx)
    THEN "InvalidAmount"
    ELSE "true"

----------------------------------------------------------------------------
(* Blocks: src/src/block.rs *)

Sha2(l, r) == <<"sha", l, r>>

RECURSIVE MerkleLevel(_)
MerkleLevel(hs) ==
    IF hs = <<>> THEN <<>>
    ELSE IF Len(hs) = 1 THEN <<Sha2(hs[1], hs[1])>>
    ELSE <<Sha2(hs[1], hs[2])>> \o MerkleLevel(SubSeq(hs, 3, Len(hs)))

RECURSIVE MerkleFold(_)
MerkleFold(hs) == IF Len(hs) = 1 THEN hs[1] ELSE MerkleFold(MerkleLevel(hs))

calculate_merkle_root(txs) ==
    IF txs = <<>> THEN ZeroRoot ELSE MerkleFold([i \in DOMAIN txs |-> TxHash(txs[i])])

\* Block::calculate_hash: SHA-256 of the bincode serialization of the whole
\* struct, the current content of the hash field included
calculate_hash(b) == <<"blkh", b>>

\* the hash of the block serialized with its hash field empty
CanonicalHash(b) == calculate_hash([b EXCEPT !.hash = EmptyStr])

\* Block::new at clock second t
BlockNew(txs, prev, t) ==
    LET b == [version |-> 1, timestamp |-> t, transactions |-> txs,
              prev_block_hash |-> prev, merkle_root |-> calculate_merkle_root(txs),
              hash |-> EmptyStr, nonce |-> 0, height |-> 0, bits |-> 486604799]
    IN [b EXCEPT !.hash = calculate_hash(b)]

\* hash.starts_with("0".repeat(d)): which digests have d leading zeros is a
\* property of SHA-256; here a block digest has them exactly when the nonce of
\* its preimage is MineNonce
StartsWithZeros(h, d) ==
    d = 0 \/ (Len(h) = 2 /\ h[1] = "blkh" /\ h[2].nonce = MineNonce)

RECURSIVE mine_block(_, _)
mine_block(b, d) ==
    IF StartsWithZeros(b.hash, d) THEN b
    ELSE LET n == [b EXCEPT !.nonce = @ + 1]
         IN mine_block([n EXCEPT !.hash = calculate_hash(n)], d)

verify_hash(b) == calculate_hash(b) = b.hash

\* Block::is_valid at clock second t
\* is_valid without the test that the first transaction is a coinbase
is_valid_any_first(b, t) ==
    /\ b.timestamp <= t
    /\ b.transactions # <<>>
    /\ \A i \in DOMAIN b.transactions : verify_transaction_data(b.transactions[i])

is_valid(b, t) ==
    /\ b.timestamp <= t
    /\ b.transactions # <<>>
    /\ is_coinbase(b.transactions[1])
    /\ \A i \in DOMAIN b.transactions : verify_transaction_data(b.transactions[i])

\* Block::validate
validate(b, u) ==
    /\ b.transactions # <<>>
    /\ is_coinbase(b.transactions[1])
    /\ calculate_hash(b) = b.hash
    /\ \A i \in DOMAIN b.transactions : verify(b.transactions[i], u) = "true"

\* bincode size of a block
BlockSize(b) ==
    4 + 8 + 8 + SumSeq([i \in DOMAIN b.transactions |-> TxSize(b.transactions[i])])
    + 8 + StrLen(b.prev_block_hash) + 8 + StrLen(b.merkle_root)
    + 8 + StrLen(b.hash) + 8 + 8 + 4

----------------------------------------------------------------------------
(* The Merkle tree: src/src/merkle.rs *)

\* the data items a tree is built over
LeafData == {<<"s", 1>>, <<"s", 2>>}

LeafLists == UNION {[1..n -> LeafData] : n \in 0..MaxLeaves}

NoRoot == <<"None">>
NoProof == <<"None">>
NoTree == [root |-> NoRoot, leaves |-> <<>>, data |-> <<"None">>]

\* MerkleNode::new_leaf: the node's hash is SHA-256 of the data
new_leaf(d) == <<"sha1", d>>

\* MerkleNode::new_parent: SHA-256 of the left hash followed by the right hash
new_parent(l, r) == Sha2(l, r)

\* one pass of `for chunk in nodes.chunks(2)`: a pair becomes its parent, a
\* single node at the end of the level moves up as it is
NextNodes(nodes) ==
    [k \in 1..((Len(nodes) + 1) \div 2) |->
        IF 2 * k <= Len(nodes) THEN new_parent(nodes[2 * k - 1], nodes[2 * k])
        ELSE nodes[2 * k - 1]]

RECURSIVE BuildRoot(_)
BuildRoot(nodes) ==
    IF Len(nodes) <= 1 THEN nodes[1] ELSE BuildRoot(NextNodes(nodes))

\* MerkleTree::new: hash the items, repeat the last leaf when the leaf count
\* is odd, then build the levels.  The field data is the caller's copy of
\* the items; the tree itself keeps only root and leaves.
MerkleTreeNew(data) ==
    IF data = <<>> THEN [root |-> NoRoot, leaves |-> <<>>, data |-> data]
    ELSE LET hs == [i \in DOMAIN data |-> new_leaf(data[i])]
             leaves == IF Len(hs) % 2 = 1 THEN Append(hs, hs[Len(hs)]) ELSE hs
         IN  [root |-> BuildRoot(leaves), leaves |-> leaves, data |-> data]

\* the loop of MerkleTree::get_proof from one level upwards (index from 0)
RECURSIVE ProofFrom(_, _)
ProofFrom(nodes, index) ==
    IF Len(nodes) <= 1 THEN <<>>
    ELSE LET sibling_index == IF index % 2 = 0 THEN index + 1 ELSE index - 1
             pushed == IF sibling_index < Len(nodes)
                       THEN <<nodes[sibling_index + 1]>> ELSE <<>>
         IN  pushed \o ProofFrom(NextNodes(nodes), index \div 2)

\* MerkleTree::get_proof
get_proof(t, index) ==
    IF index >= Len(t.leaves) THEN NoProof ELSE ProofFrom(t.leaves, index)

\* the loop of MerkleNode::verify: the hash reached from current_hash
RECURSIVE ProofFold(_, _, _)
ProofFold(current_hash_, proof, current_index) ==
    IF proof = <<>> THEN current_hash_
    ELSE ProofFold(IF current_index % 2 = 0
                   THEN Sha2(current_hash_, Head(proof))
                   ELSE Sha2(Head(proof), current_hash_),
                   Tail(proof), current_index \div 2)

\* MerkleNode::verify on the node whose hash is root
MerkleNodeVerify(root, d, proof, index) ==
    ProofFold(new_leaf(d), proof, index) = root

\* MerkleTree::verify_proof
verify_proof(t, d, proof, index) ==
    IF t.root = NoRoot THEN FALSE ELSE MerkleNodeVerify(t.root, d, proof, index)

----------------------------------------------------------------------------
(* The blockchain: src/src/blockchain.rs *)

\* the value Blockchain::add_block returns for block b at clock second t
AddBlockResult(chain, tip, b, t) ==
    IF BlockSize(b) > MAX_BLOCK_SIZE THEN "InvalidBlock"
    ELSE IF Len(chain) >= MAX_CHAIN_LENGTH THEN "InvalidChain"
    ELSE IF tip # EmptyStr /\ b.prev_block_hash # tip THEN "InvalidBlock"
    ELSE IF ~is_valid(b, t) THEN "InvalidBlock"
    ELSE IF \E i \in DOMAIN b.transactions :
                verify(b.transactions[i], EmptyUTXO) # "true"
    THEN "ValidationError"
    ELSE "Ok"

\* what validate_chain finds for the block at index i (from 1) at clock
\* second t: "true", or the error it returns
ValidateBlockAt(chain, i, t) ==
    IF ~is_valid(chain[i], t) THEN "InvalidBlock"
    ELSE IF i > 1 /\ chain[i].prev_block_hash # chain[i - 1].hash THEN "InvalidChain"
    ELSE IF \E j \in DOMAIN chain[i].transactions :
                verify(chain[i].transactions[j], EmptyUTXO) # "true"
    THEN "TransactionError"
    ELSE "true"

\* Blockchain::validate_chain at clock second t: the error of the first block
\* that has one
validate_chain(chain, t) ==
    IF \A i \in DOMAIN chain : ValidateBlockAt(chain, i, t) = "true" THEN "true"
    ELSE ValidateBlockAt(chain,
                         CHOOSE i \in DOMAIN chain :
                            /\ ValidateBlockAt(chain, i, t) # "true"
                            /\ \A k \in 1..(i - 1) : ValidateBlockAt(chain, k, t) = "true",
                         t)

get_block_height == Len(blocks)

get_last_hash == IF blocks = <<>> THEN EmptyStr ELSE current_hash

\* Blockchain::get_block: the first block with that hash (found), or
\* BlockNotFound
get_block(h) ==
    IF \E i \in DOMAIN blocks : blocks[i].hash = h
    THEN [found |-> TRUE,
          index |-> CHOOSE i \in DOMAIN blocks :
                       blocks[i].hash = h /\ \A j \in 1..(i - 1) : blocks[j].hash # h]
    ELSE [found |-> FALSE, index |-> 0]

NoBlock == <<>>

----------------------------------------------------------------------------
(* The blocks offered to add_block *)

\* a coinbase as new_coinbase builds it, but paying `value`
coinbase_paying(to, t, value) ==
    WithId(<<TxInput(Sentinel(t), 0, SUBSIDY)>>, <<TxOutput(value, to)>>)

\* wallet A sends 20 to wallet B out of the output of coinbase_paying("A", 1, 49):
\* change 49 - 20 - 1
SpendOfA ==
    LET cb == coinbase_paying("A", 1, SUBSIDY - 1)
    IN Sign(WithId(<<TxInput(cb.id, 0, SUBSIDY - 1)>>,
                   <<TxOutput(20, "B"), TxOutput(SUBSIDY - 1 - 20 - 1, "A")>>), "A")

ChainTxs(t) == {new_coinbase("A", t), coinbase_paying("A", t, SUBSIDY - 1), SpendOfA}

TxLists(t) ==
    UNION {[1..n -> ChainTxs(t)] : n \in 0..MaxBlockTxs}

PrevModes == {"tip", "genesis"}
HashModes == {"new", "mined", "empty"}

\* a candidate block: built by Block::new at second ts on the current tip or on
\* the genesis marker "0", then left as it is, mined, or (a struct literal, as
\* in main.rs) carrying an empty hash
Candidate(txs, prevMode, hashMode, ts) ==
    LET b == BlockNew(txs, IF prevMode = "tip" THEN get_last_hash ELSE GenesisPrev, ts)
    IN IF hashMode = "mined" THEN mine_block(b, MINING_DIFFICULTY)
       ELSE IF hashMode = "empty" THEN [b EXCEPT !.hash = EmptyStr]
       ELSE b

----------------------------------------------------------------------------
(* The mempool: src/src/mempool.rs *)

Threads == 1..NumThreads

size == Cardinality(DOMAIN transactions)

\* a capacity test that lets a full pool take one more entry
AtCapacity_gt(n, max) == n > max

\* the capacity test of add_transaction
AtCapacity(n, max) == n >= max

\* the capacity test of add_transactions
BatchOverCapacity(n, k, max) == n + k > max

\* the first input that is not in the UTXO set or carries no signature
FirstBadInput(tx, u) ==
    CHOOSE i \in DOMAIN tx.vin :
        /\ ~exists_utxo(u, tx.vin[i].txid, tx.vin[i].vout) \/ tx.vin[i].signature = EmptyStr
        /\ \A j \in 1..(i - 1) :
              /\ exists_utxo(u, tx.vin[j].txid, tx.vin[j].vout)
              /\ tx.vin[j].signature # EmptyStr

\* Mempool::validate_transaction: "Ok", or the error it returns (an error of
\* Transaction::verify reaches the caller as a ValidationError)
validate_transaction(tx, u) ==
    IF tx.vin = <<>> \/ tx.vout = <<>> THEN "ValidationError"
    ELSE IF \E i \in DOMAIN tx.vin : tx.vin[i].value <= 0 THEN "InvalidAmount"
    ELSE IF \E i \in DOMAIN tx.vout : tx.vout[i].value <= 0 THEN "InvalidAmount"
    ELSE IF InputTotal(tx) <= OutputTotal(tx) THEN "InvalidAmount"
    ELSE IF \E i \in DOMAIN tx.vin :
                ~exists_utxo(u, tx.vin[i].txid, tx.vin[i].vout)
                \/ tx.vin[i].signature = EmptyStr
    THEN IF ~exists_utxo(u, tx.vin[FirstBadInput(tx, u)].txid,
                         tx.vin[FirstBadInput(tx, u)].vout)
         THEN "UTXOError" ELSE "ValidationError"
    ELSE IF verify(tx, u) # "true" THEN "ValidationError"
    ELSE "Ok"

\* Transaction::calculate_fee_rate as the fraction <<fee, size>>
calculate_fee_rate(tx) ==
    IF is_coinbase(tx) THEN <<0, 1>>
    ELSE <<InputTotal(tx) - OutputTotal(tx), TxSize(tx)>>

\* fee < MIN_FEE_RATE
BelowMinFee(rate) == rate[1] * MIN_FEE_RATE_INV < rate[2]

\* TransactionEntry::new at clock second t (when the fee rate is high enough)
TransactionEntry(tx, t) ==
    [transaction |-> tx, timestamp |-> t, fee |-> calculate_fee_rate(tx),
     validation_result |-> TRUE]

\* what add_transaction decides before it looks the transaction up: the
\* capacity check, validate_transaction and the size check
AdmissionResult(tx, n, max, u) ==
    IF AtCapacity(n, max) THEN "CapacityExceeded"
    ELSE IF validate_transaction(tx, u) # "Ok" THEN validate_transaction(tx, u)
    ELSE IF TxSize(tx) > MAX_TRANSACTION_SIZE THEN "ValidationError"
    ELSE "Ok"

NoTx == <<>>
Idle == [op |-> "none", tx |-> NoTx, result |-> "none", batch |-> FALSE]

\* the outputs the mempool's UTXO set holds: two coinbase outputs of 49
FundA == coinbase_paying("A", 1, SUBSIDY - 1)
FundB == coinbase_paying("B", 1, SUBSIDY - 1)

\* wallet B sends 48 to wallet A out of FundB
SpendOfB ==
    Sign(WithId(<<TxInput(FundB.id, 0, SUBSIDY - 1)>>, <<TxOutput(SUBSIDY - 2, "A")>>), "B")

\* wallet B signs a spend of FundA, the output of wallet A, paying itself
TakenByB ==
    Sign(WithId(<<TxInput(FundA.id, 0, SUBSIDY - 1)>>, <<TxOutput(SUBSIDY - 2, "B")>>), "B")

\* wallet B spends FundB, stored with 49, declaring the input to hold 60
Overstated ==
    Sign(WithId(<<TxInput(FundB.id, 0, SUBSIDY + 10)>>, <<TxOutput(SUBSIDY - 10, "A")>>), "B")

\* the transactions offered to the mempool: two spends as Transaction::new
\* builds them, SpendOfA with its outputs changed and its id kept, a
\* coinbase, a spend signed by a wallet that does not own the output, and a
\* spend that overstates its input
PoolTxs ==
    {SpendOfA, SpendOfB,
     [SpendOfA EXCEPT !.vout = <<TxOutput(SUBSIDY - 2, "B")>>],
     new_coinbase("A", 1)}

\* transactions no wallet software would build: a spend of an output that
\* pays someone else, and an input that declares more than the output holds
ForgedTxs == {TakenByB, Overstated}

\* add_transaction, first step: capacity, validation and size
AddTransactionStart(th, tx, inBatch) ==
    /\ pc[th] = "idle"
    /\ LET r == AdmissionResult(tx, size, max_size, pool_utxo)
       IN /\ pc' = [pc EXCEPT ![th] = IF r = "Ok" THEN "check_dup" ELSE "done"]
          /\ call' = [call EXCEPT ![th] =
                 [op |-> "add_transaction", tx |-> tx,
                  result |-> IF r = "Ok" THEN "pending" ELSE r, batch |-> inBatch]]

AddTransaction(th) ==
    /\ \E tx \in PoolTxs : AddTransactionStart(th, tx, FALSE)
    /\ UNCHANGED <<transactions, max_size, pool_utxo, queue, batch, chainVars, merkleVars, netVars, walletCall, template, now>>

\* add_transaction called with a forged transaction
AddForgedTransaction(th) ==
    /\ \E tx \in ForgedTxs : AddTransactionStart(th, tx, FALSE)
    /\ UNCHANGED <<transactions, max_size, pool_utxo, queue, batch, chainVars, merkleVars, netVars, walletCall, template, now>>

\* add_transaction, second step: contains_key, then TransactionEntry::new
AddTransactionCheckDup(th) ==
    /\ pc[th] = "check_dup"
    /\ LET tx == call[th].tx
           r == IF TxHash(tx) \in DOMAIN transactions THEN "DuplicateTransaction"
                ELSE IF BelowMinFee(calculate_fee_rate(tx)) THEN "InvalidFee"
                ELSE "Ok"
       IN /\ pc' = [pc EXCEPT ![th] = IF r = "Ok" THEN "insert" ELSE "done"]
          /\ call' = [call EXCEPT ![th].result = IF r = "Ok" THEN "pending" ELSE r,
                                  ![th].tx = IF r = "Ok" THEN TransactionEntry(tx, now)
                                             ELSE tx]
    /\ UNCHANGED <<transactions, max_size, pool_utxo, queue, batch, chainVars, merkleVars, netVars, walletCall, template, now>>

\* an insert step that reports Ok but drops the entry when the pool has
\* filled up in the meantime
AddTransactionInsert_dropped(th) ==
    /\ pc[th] = "insert"
    /\ LET entry == call[th].tx
       IN /\ transactions' = IF AtCapacity(size, max_size) THEN transactions
                             ELSE Insert(transactions, TxHash(entry.transaction), entry)
          /\ call' = [call EXCEPT ![th].result = "Ok", ![th].tx = entry.transaction]
    /\ pc' = [pc EXCEPT ![th] = "done"]
    /\ UNCHANGED <<max_size, pool_utxo, queue, batch, chainVars, merkleVars, netVars, walletCall, template, now>>

\* add_transaction, last step: DashMap::insert of the entry built
AddTransactionInsert(th) ==
    /\ pc[th] = "insert"
    /\ LET entry == call[th].tx
       IN /\ transactions' = Insert(transactions, TxHash(entry.transaction), entry)
          /\ call' = [call EXCEPT ![th].result = "Ok", ![th].tx = entry.transaction]
    /\ pc' = [pc EXCEPT ![th] = "done"]
    /\ UNCHANGED <<max_size, pool_utxo, queue, batch, chainVars, merkleVars, netVars, walletCall, template, now>>

\* the call returns to its caller; the result of a batch item goes to
\* try_for_each, which keeps the first error
PoolReturn(th) ==
    /\ pc[th] = "done"
    /\ pc' = [pc EXCEPT ![th] = "idle"]
    /\ call' = [call EXCEPT ![th] = Idle]
    /\ batch' = IF call[th].batch /\ call[th].result # "Ok" /\ batch.result = "Ok"
                THEN [batch EXCEPT !.result = call[th].result]
                ELSE batch
    /\ UNCHANGED <<transactions, max_size, pool_utxo, queue, chainVars, merkleVars, netVars, walletCall, template, now>>

RemoveTransaction(th) ==
    /\ pc[th] = "idle"
    /\ \E tx \in PoolTxs \cup ForgedTxs :
        /\ TxHash(tx) \in DOMAIN transactions
        /\ transactions' = [x \in DOMAIN transactions \ {TxHash(tx)} |-> transactions[x]]
    /\ UNCHANGED <<pc, call, max_size, pool_utxo, queue, batch, chainVars, merkleVars, netVars, walletCall, template, now>>

\* Mempool::get_transaction(tx_hash): whether an entry is stored under the key,
\* and the key of the entry whose transaction is returned
get_transaction(h) == [found |-> h \in DOMAIN transactions, key |-> h]

\* Mempool::clear (the validation cache it also clears is never written)
Clear(th) ==
    /\ pc[th] = "idle"
    /\ transactions # [k \in {} |-> <<>>]
    /\ transactions' = [k \in {} |-> <<>>]
    /\ UNCHANGED <<pc, call, max_size, pool_utxo, queue, batch, chainVars, merkleVars, netVars, walletCall, template, now>>

\* the orders in which iterating a DashMap can yield the keys in S
IterationOrders(S) ==
    {f \in [1..Cardinality(S) -> S] : \A i, j \in DOMAIN f : i # j => f[i] # f[j]}

\* fee rate a is smaller than fee rate b (both fee / size, sizes positive)
FeeLess(a, b) == a[1] * b[2] < b[1] * a[2]

\* a comparator that puts the smaller fee first
ByFee_ascending(a, b) == FeeLess(a.fee, b.fee)

\* the comparator of get_transactions_for_new_block,
\* b.fee.partial_cmp(&a.fee) == Less: entry a goes before entry b
ByFee(a, b) == FeeLess(b.fee, a.fee)

\* Vec::sort_by with that comparator: a stable sort, so an entry goes behind
\* every entry it does not have to precede
RECURSIVE sort_by(_)
sort_by(entries) ==
    IF entries = <<>> THEN <<>>
    ELSE LET n == Len(entries)
             x == entries[n]
             sorted == sort_by(SubSeq(entries, 1, n - 1))
         IN  SelectSeq(sorted, LAMBDA e : ~ByFee(x, e))
             \o <<x>>
             \o SelectSeq(sorted, LAMBDA e : ByFee(x, e))

\* Mempool::get_transactions_for_new_block(max_n) over the entries in the
\* order the iterator yields them
get_transactions_for_new_block(entries, max_n) ==
    LET sorted == sort_by(entries)
        taken == SubSeq(sorted, 1, IF max_n < Len(sorted) THEN max_n ELSE Len(sorted))
    IN  [i \in DOMAIN taken |-> taken[i].transaction]

NoTemplate == [op |-> "none", max_n |-> 0, result |-> <<>>]

GetTransactionsForNewBlock(th) ==
    /\ pc[th] = "idle"
    /\ template.op = "none"
    /\ \E max_n \in 0..MaxPoolSize, order \in IterationOrders(DOMAIN transactions) :
        template' = [op |-> "get_transactions_for_new_block", max_n |-> max_n,
                     result |-> get_transactions_for_new_block(
                                    [i \in DOMAIN order |-> transactions[order[i]]],
                                    max_n)]
    /\ UNCHANGED <<chainVars, poolVars, merkleVars, netVars, walletCall, now>>

\* the caller drops the list it was given
TemplateReturn ==
    /\ template.op # "none"
    /\ template' = NoTemplate
    /\ UNCHANGED <<chainVars, poolVars, merkleVars, netVars, walletCall, now>>

\* Mempool::cleanup_old_transactions(max_age)
CleanupOldTransactions(th) ==
    /\ pc[th] = "idle"
    /\ \E max_age \in 0..MaxTime :
        LET keep == {k \in DOMAIN transactions : now - transactions[k].timestamp <= max_age}
        IN /\ keep # DOMAIN transactions
           /\ transactions' = [k \in keep |-> transactions[k]]
    /\ UNCHANGED <<pc, call, max_size, pool_utxo, queue, batch, chainVars, merkleVars, netVars, walletCall, template, now>>

\* add_transactions: the capacity check for the whole batch, then the items
\* are handed to the thread pool
AddTransactions ==
    /\ batch.state = "idle"
    /\ \E txs \in SUBSET PoolTxs :
        /\ Cardinality(txs) \in 1..MaxBatch
        /\ IF BatchOverCapacity(size, Cardinality(txs), max_size)
           THEN /\ batch' = [state |-> "done", result |-> "CapacityExceeded"]
                /\ queue' = queue
           ELSE /\ batch' = [state |-> "running", result |-> "Ok"]
                /\ queue' = txs
    /\ UNCHANGED <<transactions, max_size, pool_utxo, pc, call, chainVars, merkleVars, netVars, walletCall, template, now>>

\* a pool thread runs add_transaction on an item of the batch
BatchItem(th) ==
    /\ batch.state = "running"
    /\ \E tx \in queue :
        /\ AddTransactionStart(th, tx, TRUE)
        /\ queue' = queue \ {tx}
    /\ UNCHANGED <<transactions, max_size, pool_utxo, batch, chainVars, merkleVars, netVars, walletCall, template, now>>

\* try_for_each stops handing out items once one has failed
BatchStop ==
    /\ batch.state = "running"
    /\ batch.result # "Ok"
    /\ queue # {}
    /\ queue' = {}
    /\ UNCHANGED <<transactions, max_size, pool_utxo, pc, call, batch, chainVars, merkleVars, netVars, walletCall, template, now>>

\* add_transactions returns once no item is left or running
BatchDone ==
    /\ batch.state = "running"
    /\ queue = {}
    /\ \A th \in Threads : ~call[th].batch
    /\ batch' = [batch EXCEPT !.state = "done"]
    /\ UNCHANGED <<transactions, max_size, pool_utxo, pc, call, queue, chainVars, merkleVars, netVars, walletCall, template, now>>

BatchReturn ==
    /\ batch.state = "done"
    /\ batch' = [state |-> "idle", result |-> "Ok"]
    /\ UNCHANGED <<transactions, max_size, pool_utxo, pc, call, queue, chainVars, merkleVars, netVars, walletCall, template, now>>

PoolTick ==
    /\ now < MaxTime
    /\ now' = now + 1
    /\ UNCHANGED <<chainVars, poolVars, merkleVars, netVars, walletCall, template>>

----------------------------------------------------------------------------
(* Actions on the chain and the node's UTXO set *)

\* an add_block that moves current_hash to the block before it is checked
AddBlock_hash_first(b) ==
    /\ lastCall.op = "none"
    /\ Len(blocks) < MaxChainLen
    /\ LET r == AddBlockResult(blocks, current_hash, b, now)
       IN /\ lastCall' = [op |-> "add_block", block |-> b, result |-> r]
          /\ blocks' = IF r = "Ok" THEN Append(blocks, b) ELSE blocks
          /\ current_hash' = b.hash
    /\ UNCHANGED <<utxos, now, poolVars, merkleVars, netVars, walletCall, template>>

\* an add_block that puts an accepted block at the front of the chain
AddBlock_front(b) ==
    /\ lastCall.op = "none"
    /\ Len(blocks) < MaxChainLen
    /\ LET r == AddBlockResult(blocks, current_hash, b, now)
       IN /\ lastCall' = [op |-> "add_block", block |-> b, result |-> r]
          /\ blocks' = IF r = "Ok" THEN <<b>> \o blocks ELSE blocks
          /\ current_hash' = IF r = "Ok" THEN b.hash ELSE current_hash
    /\ UNCHANGED <<utxos, now, poolVars, merkleVars, netVars, walletCall, template>>

AddBlock(b) ==
    /\ lastCall.op = "none"
    /\ Len(blocks) < MaxChainLen
    /\ LET r == AddBlockResult(blocks, current_hash, b, now)
       IN /\ lastCall' = [op |-> "add_block", block |-> b, result |-> r]
          /\ blocks' = IF r = "Ok" THEN Append(blocks, b) ELSE blocks
          /\ current_hash' = IF r = "Ok" THEN b.hash ELSE current_hash
    /\ UNCHANGED <<utxos, now, poolVars, merkleVars, netVars, walletCall, template>>

AddBlockAny ==
    \E txs \in TxLists(now), pm \in PrevModes, hm \in HashModes, ts \in {now, now + 1} :
        /\ ts > now => (pm = "tip" /\ hm = "new")
        /\ AddBlock(Candidate(txs, pm, hm, ts))

Reindex ==
    /\ lastCall.op = "none"
    /\ utxos # reindex(blocks)
    /\ utxos' = reindex(blocks)
    /\ lastCall' = [op |-> "reindex", block |-> NoBlock, result |-> "Ok"]
    /\ UNCHANGED <<blocks, current_hash, now, poolVars, merkleVars, netVars, walletCall, template>>

\* a coinbase that carries the id of coinbase_paying("A", 1, 49) and pays
\* wallet B: add_block compares no transaction id with the transaction's hash
Recast ==
    [coinbase_paying("A", 1, SUBSIDY - 1) EXCEPT !.vout = <<TxOutput(SUBSIDY - 1, "B")>>]

RecastLists ==
    UNION {[1..n -> {coinbase_paying("A", 1, SUBSIDY - 1), Recast}] : n \in 1..MaxBlockTxs}

\* add_block of a block whose coinbases share an id
AddRecastBlock ==
    \E txs \in RecastLists, pm \in PrevModes, hm \in HashModes :
        AddBlock(Candidate(txs, pm, hm, now))

\* the UTXO set that update(block.transactions), called for every block of the
\* chain from genesis forward, leaves of UTXOSet::new()
RECURSIVE Replay(_, _)
Replay(u, chain) ==
    IF chain = <<>> THEN u ELSE Replay(update(u, Head(chain).transactions), Tail(chain))

\* Blockchain::validate_chain()
ValidateChain ==
    /\ lastCall.op = "none"
    /\ blocks # <<>>
    /\ lastCall' = [op |-> "validate_chain", block |-> NoBlock,
                    result |-> validate_chain(blocks, now)]
    /\ UNCHANGED <<blocks, current_hash, utxos, now, poolVars, merkleVars, netVars, walletCall, template>>

\* the caller takes the result of the call
Return ==
    /\ lastCall.op # "none"
    /\ lastCall' = [op |-> "none", block |-> NoBlock, result |-> "Ok"]
    /\ UNCHANGED <<blocks, current_hash, utxos, now, poolVars, merkleVars, netVars, walletCall, template>>

Tick ==
    /\ lastCall.op = "none"
    /\ now < MaxTime
    /\ now' = now + 1
    /\ UNCHANGED <<chainVars, poolVars, merkleVars, netVars, walletCall, template>>

\* wallet A sends 10 to wallet B out of the change output of SpendOfA
SpendOfChange ==
    Sign(WithId(<<TxInput(SpendOfA.id, 1, SUBSIDY - 1 - 20 - 1)>>,
                <<TxOutput(10, "B"), TxOutput(SUBSIDY - 1 - 20 - 1 - 10 - 1, "A")>>), "A")

\* the spends that blocks applied to the UTXO set hold
UtxoTxs == {SpendOfA, SpendOfChange, SpendOfB}

\* the transactions of a block: a coinbase, then up to MaxUpdateTxs - 1 spends
UpdateLists ==
    {<<cb>> \o rest : cb \in {FundA, FundB},
                      rest \in UNION {[1..n -> UtxoTxs] : n \in 0..(MaxUpdateTxs - 1)}}

\* UTXOSet::update(block_txs)
UtxoUpdate ==
    /\ lastCall.op = "none"
    /\ \E txs \in UpdateLists :
          /\ utxos' = update(utxos, txs)
          /\ lastCall' = [op |-> "update", block |-> txs, result |-> "Ok"]
    /\ UNCHANGED <<blocks, current_hash, now, poolVars, merkleVars, netVars, walletCall, template>>

\* Mempool::with_capacity(MaxPoolSize, Arc::new(utxo_set)): the pool is built,
\* once, over the UTXO set as it is at that moment; the Arc is never written
\* through
MempoolNew ==
    /\ lastCall.op = "none"
    /\ \A th \in Threads : pc[th] = "idle"
    /\ template.op = "none"
    /\ pool_utxo = EmptyUTXO
    /\ utxos # EmptyUTXO
    /\ pool_utxo' = utxos
    /\ transactions' = [k \in {} |-> <<>>]
    /\ max_size' = MaxPoolSize
    /\ UNCHANGED <<pc, call, queue, batch, chainVars, merkleVars, netVars, walletCall, template, now>>

\* the blocks the tip advances by: one that funds both wallets, and one each
\* in which a wallet spends what it was funded with
TipLists == {<<FundA, FundB>>, <<FundB, SpendOfA>>, <<FundA, SpendOfB>>}

\* UTXOSet::update with the transactions of the new tip, between two calls
\* into the pool
ApplyTipBlock ==
    /\ \A th \in Threads : pc[th] = "idle"
    /\ template.op = "none"
    /\ lastCall.op = "none"
    /\ \E txs \in TipLists :
          /\ utxos' = update(utxos, txs)
          /\ lastCall' = [op |-> "update", block |-> txs, result |-> "Ok"]
    /\ UNCHANGED <<blocks, current_hash, now, poolVars, merkleVars, netVars, walletCall, template>>

----------------------------------------------------------------------------
(* Spending from a wallet: UTXOSet::find_spendable_outputs, Transaction::new *)

\* the entries of the set as `for (txid, txouts) in &self.utxos`, then
\* `for (vout, output) in txouts`, meets them when the HashMap yields its
\* keys in the given order: <<txid, vout, output>>
RECURSIVE EntriesIn(_, _)
EntriesIn(u, order) ==
    IF order = <<>> THEN <<>>
    ELSE [i \in DOMAIN u[Head(order)] |->
             <<Head(order), u[Head(order)][i][1], u[Head(order)][i][2]>>]
         \o EntriesIn(u, Tail(order))

UTXOInfo(txid, vout, value) == [txid |-> txid, vout |-> vout, value |-> value]

\* the 'outer loop of find_spendable_outputs: every entry of the address is
\* taken, and the loop breaks once the accumulated value reaches the amount
RECURSIVE Accumulate(_, _, _, _, _)
Accumulate(entries, addr, amount, accumulated, outputs) ==
    IF entries = <<>> THEN [accumulated |-> accumulated, outputs |-> outputs]
    ELSE LET e == Head(entries)
         IN IF e[3].pubkey_hash = addr
            THEN IF accumulated + e[3].value >= amount
                 THEN [accumulated |-> accumulated + e[3].value,
                       outputs |-> Append(outputs, UTXOInfo(e[1], e[2], e[3].value))]
                 ELSE Accumulate(Tail(entries), addr, amount,
                                 accumulated + e[3].value,
                                 Append(outputs, UTXOInfo(e[1], e[2], e[3].value)))
            ELSE Accumulate(Tail(entries), addr, amount, accumulated, outputs)

\* a variant that also fails when the outputs found total exactly the amount
find_spendable_outputs_short(u, order, addr, amount) ==
    LET found == Accumulate(EntriesIn(u, order), addr, amount, 0, <<>>)
    IN IF found.accumulated <= amount
       THEN [ok |-> FALSE, err |-> "InsufficientFunds", outputs |-> <<>>]
       ELSE [ok |-> TRUE, err |-> "none", outputs |-> found.outputs]

\* UTXOSet::find_spendable_outputs(address, amount), the HashMap iterated in
\* the given order
find_spendable_outputs(u, order, addr, amount) ==
    LET found == Accumulate(EntriesIn(u, order), addr, amount, 0, <<>>)
    IN IF found.accumulated < amount
       THEN [ok |-> FALSE, err |-> "InsufficientFunds", outputs |-> <<>>]
       ELSE [ok |-> TRUE, err |-> "none", outputs |-> found.outputs]

NoResult == [ok |-> FALSE, err |-> "none", tx |-> NoTx]

\* Transaction::new(from_wallet, to_address, amount, utxo_set)
TransactionNew(from, to, amount, u, order) ==
    IF amount <= 0 THEN [NoResult EXCEPT !.err = "InvalidAmount"]
    ELSE LET found == find_spendable_outputs(u, order, Address(from), amount)
             inputs == [i \in DOMAIN found.outputs |->
                           TxInput(found.outputs[i].txid, found.outputs[i].vout,
                                   found.outputs[i].value)]
             accumulated == SumSeq([i \in DOMAIN found.outputs |->
                                       found.outputs[i].value])
         IN IF ~found.ok THEN [NoResult EXCEPT !.err = found.err]
            ELSE IF accumulated < amount
            THEN [NoResult EXCEPT !.err = "InsufficientFunds"]
            \* TxOutput::new refuses a change of zero or less
            ELSE IF accumulated > amount /\ accumulated - amount - 1 <= 0
            THEN [NoResult EXCEPT !.err = "InvalidAmount"]
            ELSE LET outputs ==
                         IF accumulated > amount
                         THEN <<TxOutput(amount, to),
                                TxOutput(accumulated - amount - 1, from)>>
                         ELSE <<TxOutput(amount, to)>>
                 IN [ok |-> TRUE, err |-> "none",
                     tx |-> Sign(WithId(inputs, outputs), from)]

\* the amounts asked for: nothing, less than one output, one short of an
\* output, a whole output, more than one output, more than any wallet owns
Amounts == {0, 20, SUBSIDY - 2, SUBSIDY - 1, SUBSIDY + 10, 4 * SUBSIDY}

NoWalletCall == [op |-> "none", args |-> <<>>, result |-> <<>>]

\* a block is applied to the UTXO set between two wallet calls
ApplyBlock == walletCall = NoWalletCall /\ UtxoUpdate

FindSpendableOutputs ==
    /\ lastCall.op = "none"
    /\ walletCall = NoWalletCall
    /\ \E w \in Wallets, amount \in Amounts, order \in IterationOrders(DOMAIN utxos) :
          walletCall' = [op |-> "find_spendable_outputs", args |-> <<w, amount>>,
                         result |-> find_spendable_outputs(utxos, order, Address(w),
                                                           amount)]
    /\ UNCHANGED <<chainVars, poolVars, merkleVars, netVars, now, template>>

NewTransaction ==
    /\ lastCall.op = "none"
    /\ walletCall = NoWalletCall
    /\ \E from, to \in Wallets, amount \in Amounts,
          order \in IterationOrders(DOMAIN utxos) :
          /\ from # to
          /\ walletCall' = [op |-> "new", args |-> <<from, to, amount>>,
                            result |-> TransactionNew(from, to, amount, utxos, order)]
    /\ UNCHANGED <<chainVars, poolVars, merkleVars, netVars, now, template>>

WalletReturn ==
    /\ walletCall # NoWalletCall
    /\ walletCall' = NoWalletCall
    /\ UNCHANGED <<chainVars, poolVars, merkleVars, netVars, now, template>>

\* the memos passed to new_coinbase (its `data` argument, which it only logs)
Memos == {"genesis", "reward"}

\* Transaction::new_coinbase(to, data) is called at the current clock second
NewCoinbase ==
    /\ lastCall.op = "none"
    /\ walletCall = NoWalletCall
    /\ \E to \in Wallets, data \in Memos :
          walletCall' = [op |-> "new_coinbase", args |-> <<to, data>>,
                         result |-> [ok |-> TRUE, err |-> "none",
                                     tx |-> new_coinbase(to, now)]]
    /\ UNCHANGED <<chainVars, poolVars, merkleVars, netVars, now, template>>

\* the block built around that coinbase is applied to the UTXO set
ApplyCoinbase ==
    /\ walletCall.op = "new_coinbase"
    /\ utxos' = update(utxos, <<walletCall.result.tx>>)
    /\ walletCall' = NoWalletCall
    /\ UNCHANGED <<blocks, current_hash, lastCall, poolVars, merkleVars, netVars, now,
                   template>>

----------------------------------------------------------------------------
(* The network: src/src/network/p2p.rs, peer.rs, message.rs *)

CHANNEL_CAPACITY == 32

Nodes == 1..NumNodes

\* the address a node listens on, and the address of the k-th socket it
\* connects from
ListenAddr(n) == <<"listen", n>>
SocketAddr(n, k) == <<"socket", n, k>>

\* the node at the other end of a peer address
PeerNode(addr) == addr[2]

\* the block main.rs broadcasts: a struct literal with no transaction, an
\* empty hash and height 0
TestBlock ==
    [version |-> 1, timestamp |-> 1, transactions |-> <<>>,
     prev_block_hash |-> ZeroRoot, merkle_root |-> ZeroRoot,
     hash |-> EmptyStr, nonce |-> 0, height |-> 0, bits |-> 486604799]

Messages == {<<"MiningSuccess", TestBlock>>, <<"NewBlock", TestBlock>>}

\* Peer::new: `let (tx, _) = mpsc::channel(32)` keeps the sender and drops
\* the receiver at once; PeerInfo::new stamps last_seen with the clock
PeerNew == [rx_alive |-> FALSE, queue |-> <<>>, last_seen |-> now]

\* Sender::send(msg).await.ok(): an error once the receiver is gone,
\* otherwise the message is queued (the send waits while the queue is full)
ChannelSend(ch, msg) ==
    IF ~ch.rx_alive THEN ch
    ELSE IF Len(ch.queue) < CHANNEL_CAPACITY
    THEN [ch EXCEPT !.queue = Append(@, msg)]
    ELSE ch

\* HashMap::insert
PeerInsert(ps, addr, peer) ==
    [a \in DOMAIN ps \cup {addr} |-> IF a = addr THEN peer ELSE ps[a]]

\* the sockets node n has connected from so far
SocketsOf(n) ==
    {a \in UNION {DOMAIN peers[m] : m \in Nodes}
           \cup UNION {{backlog[m][i] : i \in DOMAIN backlog[m]} : m \in Nodes} :
        a[1] = "socket" /\ a[2] = n}

ConnsMade == Cardinality(UNION {SocketsOf(n) : n \in Nodes})

\* the task spawned around P2PNetwork::start binds the listener
Start(n) ==
    /\ ~started[n]
    /\ started' = [started EXCEPT ![n] = TRUE]
    /\ UNCHANGED <<backlog, peers, storage, sent, chainVars, poolVars, merkleVars,
                   now, template, walletCall>>

\* the accept loop of P2PNetwork::start takes one connection
Accept(n) ==
    /\ started[n]
    /\ backlog[n] # <<>>
    /\ peers' = [peers EXCEPT ![n] = PeerInsert(@, Head(backlog[n]), PeerNew)]
    /\ backlog' = [backlog EXCEPT ![n] = Tail(@)]
    /\ UNCHANGED <<started, storage, sent, chainVars, poolVars, merkleVars,
                   now, template, walletCall>>

\* P2PNetwork::connect_to_peer(addr) and handle_connection: refused while
\* nobody listens on addr
ConnectToPeer(n, m) ==
    /\ n # m
    /\ ConnsMade < MaxConns
    /\ IF started[m]
       THEN /\ backlog' = [backlog EXCEPT ![m] =
                              Append(@, SocketAddr(n, Cardinality(SocketsOf(n)) + 1))]
            /\ peers' = [peers EXCEPT ![n] = PeerInsert(@, ListenAddr(m), PeerNew)]
       ELSE UNCHANGED <<backlog, peers>>
    /\ UNCHANGED <<started, storage, sent, chainVars, poolVars, merkleVars,
                   now, template, walletCall>>

\* P2PNetwork::broadcast_message(message)
BroadcastMessage(n, msg) ==
    /\ peers' = [peers EXCEPT ![n] =
                    [a \in DOMAIN peers[n] |-> ChannelSend(peers[n][a], msg)]]
    /\ sent' = [op |-> "broadcast_message", from |-> n, msg |-> msg,
                peers |-> DOMAIN peers[n]]
    /\ UNCHANGED <<started, backlog, storage, chainVars, poolVars, merkleVars,
                   now, template, walletCall>>

\* the timeout of maintain_peers, in seconds
PEER_TIMEOUT == 3600

\* the peers of node n whose last_seen.elapsed() exceeds the timeout
TimedOut(n) == {a \in DOMAIN peers[n] : now - peers[n][a].last_seen > PEER_TIMEOUT}

\* more than the timeout goes by on the clock
Elapse ==
    /\ now <= MaxTime
    /\ now' = now + PEER_TIMEOUT + 1
    /\ UNCHANGED <<chainVars, poolVars, merkleVars, netVars, template, walletCall>>

\* one pass of the loop of P2PNetwork::maintain_peers: under the write lock,
\* every peer that has timed out is logged; the map is left as it is
MaintainPeers(n) ==
    /\ sent' = [op |-> "maintain_peers", from |-> n, msg |-> <<>>,
                peers |-> TimedOut(n)]
    /\ UNCHANGED <<started, backlog, peers, storage, chainVars, poolVars, merkleVars,
                   now, template, walletCall>>

\* Storage::get_block(height) on node n
StorageGetBlock(n, height) ==
    IF height \in DOMAIN storage[n]
    THEN [found |-> TRUE, block |-> storage[n][height]]
    ELSE [found |-> FALSE, block |-> NoBlock]

\* the node whose chain and UTXO set the model holds
Self == 1

\* the handler of an incoming MiningSuccess(b) / NewBlock(b): validate b
\* against the local chain, and if it is acceptable append it, reindex the
\* UTXO set and broadcast it again
HandleBlock(kind, b) ==
    /\ lastCall.op = "none"
    /\ Len(blocks) < MaxChainLen
    /\ LET r == AddBlockResult(blocks, current_hash, b, now)
           chain == IF r = "Ok" THEN Append(blocks, b) ELSE blocks
       IN /\ lastCall' = [op |-> "handle_block", block |-> b, result |-> r]
          /\ blocks' = chain
          /\ current_hash' = IF r = "Ok" THEN b.hash ELSE current_hash
          /\ utxos' = IF r = "Ok" THEN reindex(chain) ELSE utxos
          /\ IF r = "Ok"
             THEN /\ peers' = [peers EXCEPT ![Self] =
                        [a \in DOMAIN peers[Self] |-> ChannelSend(peers[Self][a], <<kind, b>>)]]
                  /\ sent' = [op |-> "broadcast_message", from |-> Self,
                              msg |-> <<kind, b>>, peers |-> DOMAIN peers[Self]]
             ELSE UNCHANGED <<peers, sent>>
    /\ UNCHANGED <<started, backlog, storage, now, poolVars, merkleVars,
                   template, walletCall>>

\* a block arrives from a peer for the first time
ReceiveBlock ==
    \E kind \in {"MiningSuccess", "NewBlock"} :
    \E txs \in TxLists(now), pm \in PrevModes, hm \in HashModes :
        HandleBlock(kind, Candidate(txs, pm, hm, now))

\* a block of the local chain is delivered again
ReceiveAgain ==
    \E kind \in {"MiningSuccess", "NewBlock"} :
    \E i \in DOMAIN blocks : HandleBlock(kind, blocks[i])

InitNet ==
    /\ started = [n \in Nodes |-> FALSE]
    /\ backlog = [n \in Nodes |-> <<>>]
    /\ peers = [n \in Nodes |-> [a \in {} |-> PeerNew]]
    /\ storage = [n \in Nodes |-> [h \in {} |-> NoBlock]]
    /\ sent = [op |-> "none", from |-> 0, msg |-> <<>>, peers |-> {}]
    /\ walletCall = NoWalletCall

\* MerkleTree::new(data)
MerkleNew ==
    /\ tree = NoTree
    /\ \E data \in LeafLists : tree' = MerkleTreeNew(data)
    /\ UNCHANGED <<proofCall, chainVars, poolVars, now, template, netVars, walletCall>>

\* tree.get_proof(index)
GetProof ==
    /\ tree # NoTree
    /\ \E index \in 0..MaxLeaves :
        proofCall' = [op |-> "get_proof", index |-> index, data |-> <<"None">>,
                      proof |-> get_proof(tree, index), result |-> FALSE]
    /\ UNCHANGED <<tree, chainVars, poolVars, now, template, netVars, walletCall>>

\* tree.verify_proof(d, proof, index) with the proof get_proof returned
VerifyProof ==
    /\ proofCall.op = "get_proof"
    /\ proofCall.proof # NoProof
    /\ \E d \in LeafData :
        proofCall' = [proofCall EXCEPT
                        !.op = "verify_proof", !.data = d,
                        !.result = verify_proof(tree, d, proofCall.proof,
                                                proofCall.index)]
    /\ UNCHANGED <<tree, chainVars, poolVars, now, template, netVars, walletCall>>

InitMerkle ==
    /\ template = NoTemplate
    /\ tree = NoTree
    /\ proofCall = [op |-> "none", index |-> 0, data |-> <<"None">>,
                    proof |-> NoProof, result |-> FALSE]

InitChain ==
    /\ blocks = <<>>
    /\ current_hash = EmptyStr
    /\ utxos = EmptyUTXO
    /\ now = 1
    /\ lastCall = [op |-> "none", block |-> NoBlock, result |-> "Ok"]

\* the UTXO sets a mempool is built over: UTXOSet::new(), and the set that
\* holds the outputs of FundA and FundB
PoolUTXOSets == {EmptyUTXO, update(EmptyUTXO, <<FundA, FundB>>)}

\* Mempool::with_capacity(MaxPoolSize, utxo_set)
InitPool ==
    /\ transactions = [k \in {} |-> <<>>]
    /\ max_size = MaxPoolSize
    /\ pool_utxo \in PoolUTXOSets
    /\ pc = [th \in Threads |-> "idle"]
    /\ call = [th \in Threads |-> Idle]
    /\ queue = {}
    /\ batch = [state |-> "idle", result |-> "Ok"]

ChainInit == InitChain /\ InitPool /\ InitMerkle /\ InitNet /\ pool_utxo = EmptyUTXO

ChainNext == AddBlockAny \/ Reindex \/ Return \/ Tick

ChainSpec == ChainInit /\ [][ChainNext]_vars

\* add_block calls alone, on the chain they build
AddBlockNext == AddBlockAny \/ Return

AddBlockSpec == ChainInit /\ [][AddBlockNext]_vars

\* a chain whose blocks repeat a transaction id, and the node's UTXO set
\* rebuilt from it
ReplayNext == AddRecastBlock \/ Reindex \/ Return

ReplaySpec == ChainInit /\ [][ReplayNext]_vars

\* add_block calls, and validate_chain on the chain they have built
ValidateNext == AddBlockAny \/ ValidateChain \/ Return

ValidateSpec == ChainInit /\ [][ValidateNext]_vars

\* a UTXO set, empty at first, to which blocks are applied
UtxoNext == UtxoUpdate \/ Return

UtxoSpec == ChainInit /\ [][UtxoNext]_vars

\* a UTXO set to which blocks are applied, and the wallets that spend from it
WalletNext == ApplyBlock \/ Return \/ FindSpendableOutputs \/ NewTransaction \/ WalletReturn

WalletSpec == ChainInit /\ [][WalletNext]_vars

\* a miner that builds a coinbase for each block, and the UTXO set the blocks
\* are applied to
CoinbaseNext == NewCoinbase \/ ApplyCoinbase \/ Tick

CoinbaseSpec == ChainInit /\ [][CoinbaseNext]_vars

\* one Merkle tree, the proofs it gives and their verification
MerkleNext == MerkleNew \/ GetProof \/ VerifyProof

MerkleSpec == ChainInit /\ [][MerkleNext]_vars

\* the nodes of a network: listeners, connections and broadcasts
NetNext ==
    \/ \E n \in Nodes : Start(n) \/ Accept(n)
    \/ \E n, m \in Nodes : ConnectToPeer(n, m)
    \/ \E n \in Nodes, msg \in Messages : BroadcastMessage(n, msg)

\* a node that handles the blocks its peers send
ReceiveNext == ReceiveBlock \/ ReceiveAgain \/ Return

ReceiveSpec == ChainInit /\ [][ReceiveNext]_vars

NetSpec == ChainInit /\ [][NetNext]_vars

\* the spawned tasks get to run
NetFairSpec ==
    NetSpec /\ \A n \in Nodes : WF_vars(Start(n)) /\ WF_vars(Accept(n))

\* the nodes of a network, their connections growing old, and the
\* maintenance task of each
MaintainNext ==
    \/ \E n \in Nodes : Start(n) \/ Accept(n) \/ MaintainPeers(n)
    \/ \E n, m \in Nodes : ConnectToPeer(n, m)
    \/ Elapse

MaintainSpec == ChainInit /\ [][MaintainNext]_vars

\* the spawned tasks get to run, the maintenance task among them
MaintainFairSpec ==
    MaintainSpec /\ \A n \in Nodes : /\ WF_vars(Start(n))
                                      /\ WF_vars(Accept(n))
                                      /\ WF_vars(MaintainPeers(n))

MempoolInit == InitChain /\ InitPool /\ InitMerkle /\ InitNet

\* threads calling add_transaction, remove_transaction and clear on one pool
MempoolNext ==
    \E th \in Threads :
        \/ AddTransaction(th)
        \/ AddTransactionCheckDup(th)
        \/ AddTransactionInsert(th)
        \/ PoolReturn(th)
        \/ RemoveTransaction(th)
        \/ Clear(th)

MempoolSpec == MempoolInit /\ [][MempoolNext]_vars

\* one thread that offers the pool transactions, forged ones included, and
\* asks it for the transactions of a new block
Miner == 1

TemplateNext ==
    \/ AddTransaction(Miner)
    \/ AddForgedTransaction(Miner)
    \/ AddTransactionCheckDup(Miner)
    \/ AddTransactionInsert(Miner)
    \/ PoolReturn(Miner)
    \/ RemoveTransaction(Miner)
    \/ Clear(Miner)
    \/ GetTransactionsForNewBlock(Miner)
    \/ TemplateReturn

TemplateSpec == MempoolInit /\ [][TemplateNext]_vars

\* a node's UTXO set to which blocks are applied, and a mempool built over it
TipNext ==
    \/ ApplyTipBlock
    \/ Return
    \/ MempoolNew
    \/ AddTransaction(Miner)
    \/ AddTransactionCheckDup(Miner)
    \/ AddTransactionInsert(Miner)
    \/ PoolReturn(Miner)
    \/ GetTransactionsForNewBlock(Miner)
    \/ TemplateReturn

TipSpec == ChainInit /\ [][TipNext]_vars

\* the same threads, with add_transactions batches on the thread pool, the
\* clock and cleanup_old_transactions
MempoolBatchNext ==
    \/ MempoolNext
    \/ \E th \in Threads :
          \/ CleanupOldTransactions(th)
          \/ BatchItem(th)
    \/ AddTransactions
    \/ BatchStop
    \/ BatchDone
    \/ BatchReturn
    \/ PoolTick

MempoolBatchSpec == MempoolInit /\ [][MempoolBatchNext]_vars

\* a pool filled by add_transactions alone, each batch handed to a pool that
\* clear() has emptied
BatchNext ==
    \/ (DOMAIN transactions = {} /\ AddTransactions)
    \/ \E th \in Threads :
          \/ BatchItem(th)
          \/ AddTransactionCheckDup(th)
          \/ AddTransactionInsert(th)
          \/ PoolReturn(th)
          \/ (batch.state = "idle" /\ Clear(th))
    \/ BatchStop
    \/ BatchDone
    \/ BatchReturn

BatchSpec == MempoolInit /\ [][BatchNext]_vars

----------------------------------------------------------------------------
(* Properties of the chain *)

\* the chain as it was when the call recorded in lastCall was made
ChainBeforeCall ==
    IF lastCall.op = "add_block" /\ lastCall.result = "Ok"
    THEN SubSeq(blocks, 1, Len(blocks) - 1)
    ELSE blocks

TipBeforeCall ==
    IF ChainBeforeCall = <<>> THEN EmptyStr
    ELSE ChainBeforeCall[Len(ChainBeforeCall)].hash

\* C1: after any sequence of add_block calls, every block but the first names
\* the stored hash of the block before it.
C1_ChainLinked ==
    \A i \in 2..Len(blocks) : blocks[i].prev_block_hash = blocks[i - 1].hash

\* C2: every block of the chain stores the hash of its serialization with the
\* hash field empty, and add_block rejects a block whose stored hash is not
\* that hash.
C2_HashIntegrity ==
    /\ \A i \in DOMAIN blocks : blocks[i].hash = CanonicalHash(blocks[i])
    /\ (lastCall.op = "add_block"
        /\ lastCall.block.hash # CanonicalHash(lastCall.block))
       => lastCall.result # "Ok"

\* C3: every block of the chain has exactly one coinbase transaction, at
\* index 0.
C3_OneCoinbaseFirst ==
    \A i \in DOMAIN blocks :
        /\ blocks[i].transactions # <<>>
        /\ is_coinbase(blocks[i].transactions[1])
        /\ \A j \in 2..Len(blocks[i].transactions) :
              ~is_coinbase(blocks[i].transactions[j])

\* C4: every coinbase of every block of the chain pays out exactly SUBSIDY.
C4_CoinbasePaysSubsidy ==
    \A i \in DOMAIN blocks : \A j \in DOMAIN blocks[i].transactions :
        is_coinbase(blocks[i].transactions[j])
            => OutputTotal(blocks[i].transactions[j]) = SUBSIDY

\* the block of test_blockchain_basic_operations: Block::new over one
\* new_coinbase(A), previous hash empty, then mine_block(4)
IsMinedGenesis(b) ==
    \E t \in 1..now :
        b = mine_block(BlockNew(<<new_coinbase("A", t)>>, EmptyStr, t), MINING_DIFFICULTY)

\* C5: on an empty chain add_block accepts the mined block holding one
\* new_coinbase(A); the height is then 1, get_block finds the block, and after
\* reindex the balance of A is 50.
C5_GenesisAccepted ==
    (lastCall.op = "add_block" /\ ChainBeforeCall = <<>> /\ IsMinedGenesis(lastCall.block))
    => /\ lastCall.result = "Ok"
       /\ get_block_height = 1
       /\ get_block(lastCall.block.hash).found
       /\ blocks[get_block(lastCall.block.hash).index] = lastCall.block
       /\ get_balance(reindex(blocks), "A") = SUBSIDY

Signed(tx) ==
    \E w \in Wallets : \A i \in DOMAIN tx.vin :
        /\ tx.vin[i].pubkey = PublicKey(w)
        /\ tx.vin[i].signature = WalletSign(w, TxHash(tx))

\* a block [coinbase, tx] on the tip, tx a signed spend of outputs that are
\* unspent (with the declared values) as of the tip, paying out less than it
\* takes in
IsSpendBlock(b) ==
    /\ Len(b.transactions) = 2
    /\ b.prev_block_hash = TipBeforeCall
    /\ b.timestamp <= now
    /\ is_coinbase(b.transactions[1])
    /\ InputTotal(b.transactions[1]) > OutputTotal(b.transactions[1])
    /\ LET tx == b.transactions[2]
       IN /\ ~is_coinbase(tx)
          /\ Signed(tx)
          /\ tx.vin # <<>>
          /\ \A i \in DOMAIN tx.vin : verify_input(reindex(ChainBeforeCall), tx.vin[i])
          /\ InputTotal(tx) > OutputTotal(tx)

\* C6: add_block accepts a block [coinbase, tx] built on the tip when tx is a
\* signed spend of outputs unspent as of the tip whose inputs exceed its
\* outputs.
C6_SpendBlockAccepted ==
    (lastCall.op = "add_block" /\ IsSpendBlock(lastCall.block))
    => lastCall.result = "Ok"

\* the outputs of the chain: <<block, transaction, output index>>
ChainOutputs(chain) ==
    {<<i, j, k>> \in (DOMAIN chain) \X (1..MaxBlockTxs + 1) \X (1..2) :
        j \in DOMAIN chain[i].transactions /\ k \in DOMAIN chain[i].transactions[j].vout}

Later(i, j, i2, j2) == i2 > i \/ (i2 = i /\ j2 > j)

\* output o of the chain is consumed by an input of a later transaction
ConsumedLater(chain, o) ==
    \E i2 \in DOMAIN chain : \E j2 \in DOMAIN chain[i2].transactions :
        /\ Later(o[1], o[2], i2, j2)
        /\ ~is_coinbase(chain[i2].transactions[j2])
        /\ \E n \in DOMAIN chain[i2].transactions[j2].vin :
              /\ chain[i2].transactions[j2].vin[n].txid = chain[o[1]].transactions[o[2]].id
              /\ chain[i2].transactions[j2].vin[n].vout = o[3] - 1

RECURSIVE SumValues(_, _)
SumValues(chain, os) ==
    IF os = {} THEN 0
    ELSE LET o == CHOOSE x \in os : TRUE
         IN chain[o[1]].transactions[o[2]].vout[o[3]].value + SumValues(chain, os \ {o})

\* what the transactions of the chain, taken in order, leave wallet w: every
\* output paying w, less those consumed by a later input
LedgerBalance(chain, w) ==
    SumValues(chain, {o \in ChainOutputs(chain) :
        /\ chain[o[1]].transactions[o[2]].vout[o[3]].pubkey_hash = Address(w)
        /\ ~ConsumedLater(chain, o)})

\* C7: after reindex(chain), get_balance of every address is the running sum
\* of the outputs paying it less its outputs consumed by later inputs.
C7_ReplayBalance ==
    lastCall.op = "reindex"
    => \A w \in Wallets : get_balance(utxos, w) = LedgerBalance(blocks, w)

\* add_block is called with block b in this step
Offered(b) == lastCall.op = "none" /\ lastCall'.op = "add_block" /\ lastCall'.block = b

\* a block with no transaction, or whose first transaction is not a coinbase
NoCoinbaseFirst(b) == b.transactions = <<>> \/ ~is_coinbase(b.transactions[1])

C17_WrongLinkRejected ==
    (/\ lastCall.op = "add_block"
     /\ ChainBeforeCall # <<>>
     /\ lastCall.block.prev_block_hash # TipBeforeCall)
    => lastCall.result = "InvalidBlock"

\* C23: append is totally ordered and append-only: an accepted block becomes
\* the last block, the blocks already in the chain keep their content and
\* their positions, and get_block_height counts the accepted blocks
C23_AppendOnly ==
    [][LET accepted == Offered(lastCall'.block) /\ lastCall'.result = "Ok"
       IN  /\ SubSeq(blocks', 1, Len(blocks)) = blocks
           /\ accepted => /\ blocks' = Append(blocks, lastCall'.block)
                          /\ Len(blocks') = get_block_height + 1
           /\ ~accepted => blocks' = blocks]_vars

\* two blocks have been accepted one after the other
C23_Witness ==
    /\ lastCall.op = "add_block"
    /\ lastCall.result = "Ok"
    /\ get_block_height = 2
    /\ blocks[1] # blocks[2]
    /\ blocks[2] = lastCall.block

\* b is what mine_block(MINING_DIFFICULTY) leaves of a block created by
\* Block::new
Mined(b) ==
    b = mine_block(BlockNew(b.transactions, b.prev_block_hash, b.timestamp),
                   MINING_DIFFICULTY)

\* C25: after mine_block(d) on a block created by Block::new the hash starts
\* with d zeros and the block passes verify_hash: the stored hash is the hash
\* recomputed from the block at its final nonce
C25_MinedBlockVerifies ==
    (lastCall.op = "add_block" /\ Mined(lastCall.block))
    => /\ StartsWithZeros(lastCall.block.hash, MINING_DIFFICULTY)
       /\ verify_hash(lastCall.block)

\* C33: the chain assigns heights: every block appended by add_block has
\* height equal to its index in blocks, 0 for the first block
C33_HeightIsIndex == \A i \in DOMAIN blocks : blocks[i].height = i - 1

\* C34: whenever add_block returns an error, blocks and current_hash are
\* exactly as before the call
C34_ErrorLeavesChain ==
    [][(lastCall.op = "none" /\ lastCall'.op = "add_block" /\ lastCall'.result # "Ok")
       => (blocks' = blocks /\ current_hash' = current_hash)]_vars

\* add_block has returned each of its errors that the blocks offered can
\* draw, on a chain that holds a block
C34_Witness ==
    /\ lastCall.op = "add_block"
    /\ lastCall.result \in {"InvalidBlock", "ValidationError"}
    /\ blocks # <<>>

\* C39: validate_chain returns true for every chain built solely by
\* successful add_block calls, the clock unchanged
C39_AcceptedChainValidates ==
    lastCall.op = "validate_chain" => lastCall.result = "true"

----------------------------------------------------------------------------
(* Properties of spending from a wallet *)

\* the outputs are pairwise distinct, live in the set with the value they
\* report, and owned by the address
LiveOwned(outputs, u, addr) ==
    /\ \A i, j \in DOMAIN outputs :
          (outputs[i].txid = outputs[j].txid /\ outputs[i].vout = outputs[j].vout)
          => i = j
    /\ \A i \in DOMAIN outputs :
          /\ exists_utxo(u, outputs[i].txid, outputs[i].vout)
          /\ \E k \in DOMAIN u[outputs[i].txid] :
                /\ u[outputs[i].txid][k][1] = outputs[i].vout
                /\ u[outputs[i].txid][k][2].value = outputs[i].value
                /\ u[outputs[i].txid][k][2].pubkey_hash = addr

C27_NewPaysFee ==
    (walletCall.op = "new" /\ walletCall.result.ok)
    => LET from == walletCall.args[1]
           to == walletCall.args[2]
           amount == walletCall.args[3]
           tx == walletCall.result.tx
           accumulated == InputTotal(tx)
       IN /\ tx.vout[1] = TxOutput(amount, to)
          /\ IF accumulated > amount
             THEN tx.vout = <<TxOutput(amount, to),
                              TxOutput(accumulated - amount - 1, from)>>
             ELSE Len(tx.vout) = 1
          /\ InputTotal(tx) > OutputTotal(tx)
          /\ InputTotal(tx) - OutputTotal(tx) = 1
          /\ verify_transaction_data(tx)

\* C40: Transaction::new returns Ok for every amount > 0 that the sender's
\* outputs cover (as when the selected inputs total amount + 1); its only
\* failures are InvalidAmount when amount <= 0 and InsufficientFunds when the
\* outputs total less than amount
C40_NewFailsOnlyFor ==
    walletCall.op = "new"
    => LET amount == walletCall.args[3]
           owned == get_balance(utxos, walletCall.args[1])
           r == walletCall.result
       IN /\ r.ok <=> (amount > 0 /\ owned >= amount)
          /\ ~r.ok => \/ amount <= 0 /\ r.err = "InvalidAmount"
                      \/ amount > 0 /\ owned < amount /\ r.err = "InsufficientFunds"

----------------------------------------------------------------------------
(* Properties of the mempool *)

\* C8: in every reachable state of the mempool no two entries hold
\* transactions with the same transaction.id
C8_UniqueTxId ==
    \A k1, k2 \in DOMAIN transactions :
        transactions[k1].transaction.id = transactions[k2].transaction.id => k1 = k2

\* C9: in every reachable state the number of entries is at most max_size,
\* also while several threads are inside add_transaction or add_transactions
C9_SizeBounded == size <= max_size

\* thread th enters add_transaction in this step
Enters(th) ==
    /\ pc[th] = "idle"
    /\ pc'[th] # "idle"
    /\ call'[th].op = "add_transaction"

\* C10: when the pool holds max_size entries, add_transaction of a
\* transaction that is not in the pool returns CapacityExceeded and leaves
\* the pool unchanged
C10_FullPoolRejects ==
    [][\A th \in Threads :
          (/\ Enters(th)
           /\ size = max_size
           /\ TxHash(call'[th].tx) \notin DOMAIN transactions)
          => /\ pc'[th] = "done"
             /\ call'[th].result = "CapacityExceeded"
             /\ transactions' = transactions]_vars

\* a call on a full pool, with a transaction the pool does not hold, has
\* come back with CapacityExceeded
C10_Witness ==
    \E th \in Threads :
        /\ pc[th] = "done"
        /\ call[th].op = "add_transaction"
        /\ call[th].result = "CapacityExceeded"
        /\ size = max_size
        /\ TxHash(call[th].tx) \notin DOMAIN transactions


\* thread th runs the lookup of add_transaction in this step
LooksUp(th) == pc[th] = "check_dup" /\ pc'[th] # "check_dup"

\* some entry of the pool holds a transaction with this id
IdPresent(id) ==
    \E k \in DOMAIN transactions : transactions[k].transaction.id = id

\* C11: add_transaction of a transaction whose id is already in the pool
\* returns DuplicateTransaction and leaves the size and the stored entries
\* unchanged
C11_DuplicateRejected ==
    [][\A th \in Threads :
          (LooksUp(th) /\ IdPresent(call[th].tx.id))
          => /\ pc'[th] = "done"
             /\ call'[th].result = "DuplicateTransaction"
             /\ transactions' = transactions]_vars

\* C12: over an empty UTXO set add_transaction admits a coinbase built by
\* new_coinbase: it returns Ok and get_transaction(tx.hash()) then returns
\* that transaction
C12_CoinbaseAdmitted ==
    \A th \in Threads :
        (/\ pc[th] = "done"
         /\ call[th].op = "add_transaction"
         /\ pool_utxo = EmptyUTXO
         /\ \E w \in Wallets, t \in 1..now : call[th].tx = new_coinbase(w, t))
        => /\ call[th].result = "Ok"
           /\ get_transaction(TxHash(call[th].tx)).found
           /\ transactions[TxHash(call[th].tx)].transaction = call[th].tx

\* the output that input names is stored in u and pays the address of wallet w
OwnedBy(u, input, w) ==
    /\ input.txid \in DOMAIN u
    /\ \E n \in DOMAIN u[input.txid] :
          /\ u[input.txid][n][1] = input.vout
          /\ u[input.txid][n][2].pubkey_hash = Address(w)

\* the signature of every input of tx verifies against the input's pubkey
\* over the hash of tx without signatures, and that pubkey is the key of the
\* wallet the referenced output pays
OwnerSigned(tx, u) ==
    \A i \in DOMAIN tx.vin :
        \E w \in Wallets :
            /\ tx.vin[i].pubkey = PublicKey(w)
            /\ tx.vin[i].signature = WalletSign(w, TxHash(tx))
            /\ OwnedBy(u, tx.vin[i], w)

\* C14: a non-coinbase transaction is accepted only if every input's
\* signature verifies against its pubkey and the pubkey is the owner's of the
\* referenced output: no entry of the mempool spends another key's output
C14_OnlyOwnerSpends ==
    \A k \in DOMAIN transactions :
        ~is_coinbase(transactions[k].transaction)
        => OwnerSigned(transactions[k].transaction, pool_utxo)

\* C15: every admitted entry's inputs declare the value the UTXO set stores
\* for the output they reference (verify_input), a transaction with another
\* declared value being rejected
C15_DeclaredValuesMatch ==
    \A k \in DOMAIN transactions :
        \A i \in DOMAIN transactions[k].transaction.vin :
            verify_input(pool_utxo, transactions[k].transaction.vin[i])

\* thread th takes a step of its add_transaction call
AddStep(th) == pc'[th] # pc[th] /\ call'[th].op = "add_transaction"

\* the step with which the add_transaction call of th turns out Ok
TurnsOk(th) == AddStep(th) /\ call[th].result # "Ok" /\ call'[th].result = "Ok"

\* C24: under concurrent callers every add_transaction is atomic: with the
\* step that makes it return Ok the whole entry is in the pool (found under
\* the transaction's hash, counted in the size), every other step of an
\* add_transaction call, a failing call included, leaves the pool unchanged,
\* and no step of an add_transaction call removes an entry
C24_AtomicAdd ==
    [][\A th \in Threads :
          /\ TurnsOk(th)
             => LET tx == call'[th].tx
                    h == TxHash(tx)
                IN  /\ h \in DOMAIN transactions'
                    /\ transactions'[h].transaction = tx
                    /\ transactions'[h].fee = calculate_fee_rate(tx)
                    /\ transactions'[h].validation_result
                    /\ Cardinality(DOMAIN transactions') >= 1
                    /\ \A k \in DOMAIN transactions' \ {h} :
                          k \in DOMAIN transactions /\ transactions'[k] = transactions[k]
          /\ (AddStep(th) /\ ~TurnsOk(th)) => transactions' = transactions
          /\ AddStep(th) => DOMAIN transactions \subseteq DOMAIN transactions']_vars

\* one call has returned Ok and its transaction is in the pool while another
\* thread is between its duplicate check and its insert
C24_Witness ==
    \E th, other \in Threads :
        /\ th # other
        /\ pc[th] = "done"
        /\ call[th].op = "add_transaction"
        /\ call[th].result = "Ok"
        /\ get_transaction(TxHash(call[th].tx)).found
        /\ pc[other] = "insert"

\* the fee rate the pool stores for transaction tx
FeeOf(tx) == calculate_fee_rate(tx)

\* C20: get_transactions_for_new_block(max_n) returns min(max_n, size)
\* distinct transactions of the pool in non-increasing fee-rate order, and
\* no transaction left out has a fee rate strictly greater than a returned one
C20_BestFeesFirst ==
    [][(template.op = "none" /\ template'.op # "none")
       => LET r == template'.result
              n == template'.max_n
              pool == {transactions[k].transaction : k \in DOMAIN transactions}
              returned == {r[i] : i \in DOMAIN r}
          IN  /\ Len(r) = IF n < size THEN n ELSE size
              /\ returned \subseteq pool
              /\ \A i, j \in DOMAIN r : i # j => r[i] # r[j]
              /\ \A i, j \in DOMAIN r : i < j => ~FeeLess(FeeOf(r[i]), FeeOf(r[j]))
              /\ \A tx \in pool \ returned : \A i \in DOMAIN r :
                    ~FeeLess(FeeOf(r[i]), FeeOf(tx))]_vars

\* a call with max_n = 1 on a pool of two transactions of different fee
\* rates has returned the one with the greater fee rate
C20_Witness ==
    /\ template.op = "get_transactions_for_new_block"
    /\ template.max_n = 1
    /\ Len(template.result) = 1
    /\ size = 2
    /\ pc[Miner] = "idle"
    /\ \E k \in DOMAIN transactions :
        /\ transactions[k].transaction # template.result[1]
        /\ FeeLess(transactions[k].fee, FeeOf(template.result[1]))

\* the pool entry that holds transaction tx
EntryOf(tx) ==
    transactions[CHOOSE k \in DOMAIN transactions : transactions[k].transaction = tx]

\* C30: entries of equal fee rate are returned by
\* get_transactions_for_new_block in the order of their arrival timestamps,
\* older first, and then of their txids, so that the result is a function of
\* the pool contents: whatever order the map is iterated in, the list
\* returned is the same
C30_TiesResolved ==
    [][(template.op = "none" /\ template'.op # "none")
       => LET r == template'.result
          IN  /\ \A i, j \in DOMAIN r :
                    (/\ i < j
                     /\ ~FeeLess(FeeOf(r[i]), FeeOf(r[j]))
                     /\ ~FeeLess(FeeOf(r[j]), FeeOf(r[i])))
                    => EntryOf(r[i]).timestamp <= EntryOf(r[j]).timestamp
              /\ \A order \in IterationOrders(DOMAIN transactions) :
                    get_transactions_for_new_block(
                        [i \in DOMAIN order |-> transactions[order[i]]],
                        template'.max_n) = r]_vars

\* every input of tx refers to an output present in the UTXO set u
InputsLive(tx, u) ==
    \A i \in DOMAIN tx.vin : exists_utxo(u, tx.vin[i].txid, tx.vin[i].vout)

\* C31: admission checks a transaction's inputs against the UTXO set as of the
\* current tip, and no entry spending an output that a block has consumed is
\* offered for block assembly: a transaction that passes validation, and
\* every transaction get_transactions_for_new_block returns, has all its
\* inputs in the node's current UTXO set
C31_InputsUnspentAtTip ==
    [][/\ \A th \in Threads :
             (pc[th] = "idle" /\ pc'[th] = "check_dup")
             => InputsLive(call'[th].tx, utxos)
       /\ (template.op = "none" /\ template'.op # "none")
          => \A i \in DOMAIN template'.result : InputsLive(template'.result[i], utxos)]_vars

\* the outputs (txid, vout) that transaction tx spends
SpentBy(tx) == {<<tx.vin[i].txid, tx.vin[i].vout>> : i \in DOMAIN tx.vin}

\* C35: no two transactions held in the mempool at the same time spend the
\* same output (txid, vout)
C35_NoConflictInPool ==
    \A k1, k2 \in DOMAIN transactions :
        k1 # k2 => SpentBy(transactions[k1].transaction)
                   \cap SpentBy(transactions[k2].transaction) = {}

\* C36: add_transactions(batch) is all-or-nothing: when it returns an error
\* the mempool holds no transaction of the batch that it did not hold before
\* the call; handed to an empty pool, a batch that fails leaves it empty
C36_BatchAllOrNothing ==
    (batch.state = "done" /\ batch.result # "Ok") => DOMAIN transactions = {}

\* C37: when two tasks concurrently call add_transaction with the same
\* valid transaction, exactly one call returns Ok and the entry stored is the
\* one the successful call wrote: no call turns Ok while another call, not yet
\* returned to its caller, has turned Ok with the same transaction and its
\* entry is in the pool
C37_OneWinner ==
    [][\A th \in Threads :
          (pc[th] = "insert" /\ pc'[th] = "done")
          => \A o \in Threads \ {th} :
                ~(/\ pc[o] = "done"
                  /\ call[o].op = "add_transaction"
                  /\ call[o].result = "Ok"
                  /\ call[o].tx = call'[th].tx
                  /\ TxHash(call[o].tx) \in DOMAIN transactions)]_vars

----------------------------------------------------------------------------
(* Properties of the UTXO set *)

\* input i of transaction j of the list txs names an output that is in the
\* set when update, started on u, comes to that transaction
LiveAt(u, txs, j, i) ==
    exists_utxo(update(u, SubSeq(txs, 1, j - 1)), txs[j].vin[i].txid, txs[j].vin[i].vout)

\* transaction tx has an input referencing the output that input names
Respends(tx, input) ==
    \E i \in DOMAIN tx.vin :
        tx.vin[i].txid = input.txid /\ tx.vin[i].vout = input.vout

\* C13: once a block consuming output (txid, vout) has been applied,
\* verify_input of an input referencing it is false, and a mempool over that
\* UTXO set rejects every transaction with such an input with UTXOError
C13_SpentRejected ==
    [][(lastCall.op = "none" /\ lastCall'.op = "update")
       => \A j \in DOMAIN lastCall'.block :
             \A i \in DOMAIN lastCall'.block[j].vin :
                (~is_coinbase(lastCall'.block[j]) /\ LiveAt(utxos, lastCall'.block, j, i))
                => /\ ~verify_input(utxos', lastCall'.block[j].vin[i])
                   /\ \A tx \in UtxoTxs \cup PoolTxs \cup ForgedTxs :
                         Respends(tx, lastCall'.block[j].vin[i])
                         => AdmissionResult(tx, 0, max_size, utxos') = "UTXOError"]_vars

\* the set as update has left it once the first j - 1 transactions of the
\* list are processed
Before(u, txs, j) == update(u, SubSeq(txs, 1, j - 1))

\* the set once the inputs of tx are removed from it
Spent(u, tx) == IF is_coinbase(tx) THEN u ELSE RemoveInputs(u, tx.vin)

\* C28: UTXOSet::update does not insert the outputs of a transaction whose id
\* is already present in the set: the entries stored under that id are left
\* unchanged, never overwritten
C28_UpdateSkipsPresent ==
    [][(lastCall.op = "none" /\ lastCall'.op = "update")
       => \A j \in DOMAIN lastCall'.block :
             LET tx == lastCall'.block[j]
                 held == Spent(Before(utxos, lastCall'.block, j), tx)
             IN tx.id \in DOMAIN held
                => Before(utxos, lastCall'.block, j + 1)[tx.id] = held[tx.id]]_vars

\* C29: for every chain, reindex(chain) is the state that update(
\* block.transactions), called for each block from genesis forward, leaves of
\* an empty UTXOSet
C29_ReindexIsReplay == reindex(blocks) = Replay(EmptyUTXO, blocks)

\* C38: coinbase transactions built by separate calls to new_coinbase have
\* distinct ids, whatever the address, the memo and the clock second, so the
\* coinbases of different blocks never collide in the UTXO set: the id of a
\* coinbase just built is not the id of a coinbase applied before
C38_CoinbaseIdsDistinct ==
    walletCall.op = "new_coinbase" => walletCall.result.tx.id \notin DOMAIN utxos

----------------------------------------------------------------------------
(* Properties of the Merkle tree *)

\* the call that has returned verified the proof of leaf i with leaf i's data
VerifiedLeaf(i) ==
    /\ proofCall.op = "verify_proof"
    /\ proofCall.index = i
    /\ i < Len(tree.data)
    /\ proofCall.data = tree.data[i + 1]

\* C18: for every non-empty list of leaves and every leaf index i,
\* verify_proof(leaf_i, get_proof(i), i) returns true
C18_ProofVerifies ==
    \A i \in 0..(MaxLeaves - 1) : VerifiedLeaf(i) => proofCall.result = TRUE

----------------------------------------------------------------------------
(* Properties of transactions *)

\* tx as it is before Transaction::sign: no input carries a signature or key
Unsigned(tx) ==
    [tx EXCEPT !.vin = [i \in DOMAIN tx.vin |->
        [tx.vin[i] EXCEPT !.signature = EmptyStr, !.pubkey = EmptyStr]]]

\* tx is what Transaction::new or Transaction::new_coinbase returns for its
\* inputs and outputs, signed by wallet w
BuiltBy(tx, w) == tx = Sign(WithId(Unsigned(tx).vin, tx.vout), w)

\* C19: for every transaction built by Transaction::new or new_coinbase,
\* tx.hash() equals tx.id before and after sign(), and the digest sign()
\* signs is the one tx.id names
C19_HashIsId ==
    \A th \in Threads : \A w \in Wallets :
        (call[th].op = "add_transaction" /\ BuiltBy(call[th].tx, w))
        => LET tx == call[th].tx
           IN  /\ TxHash(Unsigned(tx)) = tx.id
               /\ TxHash(tx) = tx.id
               /\ \A i \in DOMAIN tx.vin :
                    ~is_coinbase(tx) => tx.vin[i].signature = WalletSign(w, tx.id)

----------------------------------------------------------------------------
(* Properties of the network *)

\* the handler is given a block that is already in the local chain
Redelivered ==
    /\ lastCall.op = "none"
    /\ lastCall'.op = "handle_block"
    /\ \E i \in DOMAIN blocks : blocks[i] = lastCall'.block

Stored(n, b) ==
    StorageGetBlock(n, b.height).found /\ StorageGetBlock(n, b.height).block = b

\* C22: after broadcast_message(MiningSuccess(block)) every peer connected at
\* that time eventually receives the message and stores the block
C22_BroadcastStored ==
    \A from \in Nodes : \A a \in {ListenAddr(n) : n \in Nodes}
                                  \cup {SocketAddr(n, k) : n \in Nodes, k \in 1..MaxConns} :
        (/\ sent.op = "broadcast_message"
         /\ sent.from = from
         /\ sent.msg = <<"MiningSuccess", TestBlock>>
         /\ a \in sent.peers)
        ~> Stored(PeerNode(a), TestBlock)

\* C32: the maintenance task eventually evicts every peer whose last_seen is
\* older than the timeout: a peer that has timed out is, some time later, no
\* longer in the peer set
C32_TimedOutEvicted ==
    \A n \in Nodes : \A a \in {ListenAddr(m) : m \in Nodes}
                               \cup {SocketAddr(m, k) : m \in Nodes, k \in 1..MaxConns} :
        (a \in TimedOut(n)) ~> (a \notin DOMAIN peers[n])

====
